---- MODULE Spec2Model ----
(***************************************************************************)
(* Day slot allocation of the school timetable console                     *)
(* (dashboard/views.py): day_autofill, day_clear, day_reindex and the     *)
(* helpers _to_int, _parse_hhmm_or_hhmmss, _rev_manager.                   *)
(*                                                                         *)
(* Form values are texts, modelled as sequences of one-character strings;  *)
(* a time of day is its second of the day (0..86399); a datetime is a      *)
(* pair [ord, sec] of a day offset from the base date and a second of the  *)
(* day; a timedelta is a normalised pair [days, secs].                     *)
(***************************************************************************)
EXTENDS Integers, Sequences, FiniteSets, TLC

VARIABLES naming, periods_count, periods, breaks, req, pre, last

vars == <<naming, periods_count, periods, breaks, req, pre, last>>

-----------------------------------------------------------------------------
(* Bounds of the model. *)

\* Largest periods_count the day form sets.
MaxCount == 3

\* Largest number of period rows the period formset adds to one day.
MaxRows == 2

-----------------------------------------------------------------------------
(* Program and platform constants. *)

SecondsPerMinute == 60
MinutesPerDay == 1440
SecondsPerDay == 86400

\* Days between the base date (timezone.localdate()) and date.max: adding a
\* timedelta that leads past date.max raises OverflowError.
DaysToDateMax == 2912133

\* periods_count given to a new DaySchedule (7 for weekdays 0 and 1, else 6).
DefaultCountEarly == 7
DefaultCountLate == 6

\* The weekdays of the school week, WEEKDAY_MAP.keys().
WEEKDAY_MAP == 0..4

\* The weekdays the model keeps rows for (one of each default count).
Days == {1, 2}

\* A weekday outside the school week, which every handler refuses.
BadWeekday == 5

-----------------------------------------------------------------------------
(* Texts. *)

DigitOf ==
    [c \in {"0", "1", "2", "3", "4", "5", "6", "7", "8", "9"} |->
        CASE c = "0" -> 0 [] c = "1" -> 1 [] c = "2" -> 2 [] c = "3" -> 3
          [] c = "4" -> 4 [] c = "5" -> 5 [] c = "6" -> 6 [] c = "7" -> 7
          [] c = "8" -> 8 [] c = "9" -> 9]

IsDigit(c) == c \in DOMAIN DigitOf

DigitVal(c) == DigitOf[c]

\* str.strip(): leading and trailing blanks removed.
RECURSIVE LStrip(_)
LStrip(s) == IF s # <<>> /\ Head(s) = " " THEN LStrip(Tail(s)) ELSE s

RECURSIVE RStrip(_)
RStrip(s) ==
    IF s # <<>> /\ s[Len(s)] = " " THEN RStrip(SubSeq(s, 1, Len(s) - 1)) ELSE s

Strip(s) == RStrip(LStrip(s))

\* The value of a run of digits, most significant first.
RECURSIVE DigitsVal(_)
DigitsVal(s) ==
    IF s = <<>> THEN 0
    ELSE DigitsVal(SubSeq(s, 1, Len(s) - 1)) * 10 + DigitVal(s[Len(s)])

AllDigits(s) == s # <<>> /\ \A i \in 1..Len(s) : IsDigit(s[i])

\* int(text): blanks stripped, an optional sign, then digits; anything else
\* is a ValueError.
ParseInt(text) ==
    LET s == Strip(text)
        signed == s # <<>> /\ Head(s) \in {"-", "+"}
        body == IF signed THEN Tail(s) ELSE s
    IN  IF AllDigits(body)
        THEN [ok |-> TRUE,
              v |-> IF signed /\ Head(s) = "-"
                    THEN 0 - DigitsVal(body) ELSE DigitsVal(body)]
        ELSE [ok |-> FALSE, v |-> 0]

\* A form field: absent from the POST (None) or present with a text.
Absent == [present |-> FALSE, text |-> <<>>]
Field(t) == [present |-> TRUE, text |-> t]

\* Python truthiness of request.POST.get(name): None and "" are false.
Truthy(f) == f.present /\ f.text # <<>>

\* _to_int(val, default): default when val is None, "" or no integer; a
\* negative result raises ValueError (allow_negative is never passed).
ToIntValue(f, default) ==
    IF ~Truthy(f) THEN default
    ELSE LET p == ParseInt(f.text) IN IF p.ok THEN p.v ELSE default

ToInt(f, default) ==
    LET x == ToIntValue(f, default) IN [err |-> x < 0, v |-> x]

\* The positions of the colons of a text.
ColonsAt(s) == {i \in 1..Len(s) : s[i] = ":"}

\* One strptime field: one or two digits.
TimeField(s) == Len(s) \in {1, 2} /\ AllDigits(s)

\* datetime.strptime(s, "%H:%M:%S").time() and, failing that, "%H:%M".
\* _parse_hhmm_or_hhmmss raises ValueError on an empty text and on a text
\* matching neither format.
ParseTime(f) ==
    LET s == Strip(IF f.present THEN f.text ELSE <<>>)
        cs == ColonsAt(s)
        c1 == CHOOSE i \in cs : \A j \in cs : i <= j
        c2 == CHOOSE i \in cs : \A j \in cs : j <= i
        hh == SubSeq(s, 1, c1 - 1)
        mm == IF Cardinality(cs) = 2 THEN SubSeq(s, c1 + 1, c2 - 1)
              ELSE SubSeq(s, c1 + 1, Len(s))
        ss == IF Cardinality(cs) = 2 THEN SubSeq(s, c2 + 1, Len(s)) ELSE <<"0">>
        bad == [ok |-> FALSE, sec |-> 0]
    IN  IF s = <<>> THEN bad
        ELSE IF Cardinality(cs) \notin {1, 2} THEN bad
        ELSE IF ~(TimeField(hh) /\ TimeField(mm) /\ TimeField(ss)) THEN bad
        ELSE IF DigitsVal(hh) > 23 \/ DigitsVal(mm) > 59 \/ DigitsVal(ss) > 59
        THEN bad
        ELSE [ok |-> TRUE,
              sec |-> DigitsVal(hh) * SecondsPerMinute * SecondsPerMinute
                      + DigitsVal(mm) * SecondsPerMinute + DigitsVal(ss)]

-----------------------------------------------------------------------------
(* Durations and datetimes. *)

\* timedelta(minutes=m, seconds=s) for m, s >= 0, normalised to days and
\* seconds below a day.
Timedelta(m, s) ==
    LET rest == (m % MinutesPerDay) * SecondsPerMinute + s
    IN  [days |-> (m \div MinutesPerDay) + (rest \div SecondsPerDay),
         secs |-> rest % SecondsPerDay]

\* timedelta.total_seconds() > 0
Positive(td) == td.days > 0 \/ td.secs > 0

\* datetime.combine(base_date, start_t)
Combine(startSec) == [ord |-> 0, sec |-> startSec]

\* datetime + timedelta; the overflow is decided by DateOverflows.
DatetimePlus(dt, td) ==
    [ord |-> dt.ord + td.days + ((dt.sec + td.secs) \div SecondsPerDay),
     sec |-> (dt.sec + td.secs) % SecondsPerDay]

\* datetime + timedelta raises OverflowError past date.max.
DateOverflows(dt, td) == DatetimePlus(dt, td).ord > DaysToDateMax

\* datetime.time(): the date is dropped.
TimeOf(dt) == dt.sec

\* Order of two datetimes.
DtLeq(a, b) == a.ord < b.ord \/ (a.ord = b.ord /\ a.sec <= b.sec)

\* int(math.ceil(max(0, brk.total_seconds()) / 60.0)) if brk.total_seconds()
\* > 0 else 0: the break length in whole minutes, rounded up.
BreakMinutesFloor(brk) == brk.days * MinutesPerDay + (brk.secs \div SecondsPerMinute)

BreakMinutesFinal(brk) ==
    IF Positive(brk)
    THEN brk.days * MinutesPerDay + (brk.secs \div SecondsPerMinute)
         + (IF brk.secs % SecondsPerMinute > 0 THEN 1 ELSE 0)
    ELSE 0

-----------------------------------------------------------------------------
(* Reverse relations of a DaySchedule. *)

\* The two naming conventions of the reverse relations: a declared
\* related_name ("periods", "breaks") or Django's default ("period_set",
\* "break_set").
Namings == {"related_name", "default_set"}

\* The reverse-relation attributes a DaySchedule object has.
Attrs(nm) ==
    IF nm = "related_name" THEN {"periods", "breaks"}
    ELSE {"period_set", "break_set"}

\* _rev_manager(obj, preferred, fallback): getattr(obj, preferred, None),
\* then getattr(obj, fallback), which raises AttributeError when missing.
RevManager(nm, preferred, fallback) ==
    IF preferred \in Attrs(nm) THEN [err |-> FALSE, attr |-> preferred]
    ELSE IF fallback \in Attrs(nm) THEN [err |-> FALSE, attr |-> fallback]
    ELSE [err |-> TRUE, attr |-> fallback]

\* getattr(day, preferred, getattr(day, fallback)): the default argument is
\* evaluated first, so a missing fallback raises AttributeError whether or
\* not the preferred attribute exists.
GetattrDefault(nm, preferred, fallback) ==
    IF fallback \notin Attrs(nm) THEN [err |-> TRUE, attr |-> fallback]
    ELSE IF preferred \in Attrs(nm) THEN [err |-> FALSE, attr |-> preferred]
    ELSE [err |-> FALSE, attr |-> fallback]

-----------------------------------------------------------------------------
(* day_autofill. *)

\* request.POST.get("start_time", "07:00:00")
DefaultStart == Field(<<"0", "7", ":", "0", "0", ":", "0", "0">>)

StartField(inp) == IF inp.start_time.present THEN inp.start_time ELSE DefaultStart

\* request.POST.get("break_minutes") or request.POST.get("break_duration")
BreakMinutesField(inp) ==
    IF Truthy(inp.break_minutes) THEN inp.break_minutes ELSE inp.break_duration

\* The default of period_minutes.
DefaultPeriodMinutes == 45

\* The seven _to_int conversions of the handler.
NumbersZeroDefault(inp) ==
    [period_minutes |-> ToInt(inp.period_minutes, 0),
     period_seconds |-> ToInt(inp.period_seconds, 0),
     gap_minutes |-> ToInt(inp.gap_minutes, 0),
     gap_seconds |-> ToInt(inp.gap_seconds, 0),
     break_after |-> ToInt(inp.break_after, 0),
     break_minutes |-> ToInt(BreakMinutesField(inp), 0),
     break_seconds |-> ToInt(inp.break_seconds, 0)]

Numbers(inp) ==
    [period_minutes |-> ToInt(inp.period_minutes, DefaultPeriodMinutes),
     period_seconds |-> ToInt(inp.period_seconds, 0),
     gap_minutes |-> ToInt(inp.gap_minutes, 0),
     gap_seconds |-> ToInt(inp.gap_seconds, 0),
     break_after |-> ToInt(inp.break_after, 0),
     break_minutes |-> ToInt(BreakMinutesField(inp), 0),
     break_seconds |-> ToInt(inp.break_seconds, 0)]

\* Some _to_int call raised "values must not be negative".
AnyNegative(nums) == \E k \in DOMAIN nums : nums[k].err

\* p_len, gap and brk.
PLen(nums) == Timedelta(nums.period_minutes.v, nums.period_seconds.v)
Gap(nums) == Timedelta(nums.gap_minutes.v, nums.gap_seconds.v)
Brk(nums) == Timedelta(nums.break_minutes.v, nums.break_seconds.v)

\* The checks the handler makes before it touches a row, in its order, on
\* the converted numbers, the parsed start time and day.periods_count; "ok"
\* when all pass.
ValidateCountFirst(nums, start, count) ==
    IF AnyNegative(nums) THEN "NegativeDuration"
    ELSE IF ~start.ok THEN "InvalidTimeFormat"
    ELSE IF count <= 0 THEN "NoPeriodsConfigured"
    ELSE IF ~Positive(PLen(nums)) THEN "DegeneratePeriodLength"
    ELSE IF nums.break_after.v < 0 \/ nums.break_after.v > count
    THEN "BreakPositionOutOfRange"
    ELSE "ok"

Validate(nums, start, count) ==
    IF AnyNegative(nums) THEN "NegativeDuration"
    ELSE IF ~start.ok THEN "InvalidTimeFormat"
    ELSE IF ~Positive(PLen(nums)) THEN "DegeneratePeriodLength"
    ELSE IF count <= 0 THEN "NoPeriodsConfigured"
    ELSE IF nums.break_after.v < 0 \/ nums.break_after.v > count
    THEN "BreakPositionOutOfRange"
    ELSE "ok"

\* A Period row and a Break row as the handler creates them.
PeriodRowFromZero(i, from, to) ==
    [index |-> i - 1, starts_at |-> TimeOf(from), ends_at |-> TimeOf(to)]

PeriodRow(i, from, to) ==
    [index |-> i, starts_at |-> TimeOf(from), ends_at |-> TimeOf(to)]

BreakRow(from, minutes) ==
    [label |-> "break", starts_at |-> TimeOf(from), duration_min |-> minutes]

\* One slot of the plan, with the datetimes the cursor went through.
Slot(kind, i, from, to) == [kind |-> kind, index |-> i, from |-> from, to |-> to]

\* periods_mgr.all().delete() and breaks_mgr.all().delete()
DeleteAllKept(rows) == rows

DeleteAll(rows) == <<>>

\* cursor += timedelta(minutes=break_minutes_final)
AdvanceAfterBreak(cursor, brk, minutes) == DatetimePlus(cursor, Timedelta(minutes, 0))

\* A persistence fault: the at-th create of the request raises (0: none);
\* aborts tells whether the backend has then aborted the transaction, so that
\* the commit at the end of the handler rolls everything back, or has undone
\* the failed statement alone.
NoFault == [at |-> 0, aborts |-> FALSE]

\* The result of a run that stops with the rows as they are.
Stopped(s, outcome) == [outcome |-> outcome, P |-> s.P, B |-> s.B, plan |-> s.plan]

\* The loop "for i in range(1, day.periods_count + 1)" from iteration s.i on;
\* c holds p_len, gap, break_after, break_minutes_final, the count and the
\* fault, s the cursor, the rows and the plan so far.
RECURSIVE Fill(_, _)
Fill(c, s) ==
    IF s.i > c.count THEN Stopped(s, "ok")
    ELSE IF DateOverflows(s.cursor, c.p_len) THEN Stopped(s, "OverflowError")
    ELSE IF c.fault.at = s.creates + 1 THEN Stopped(s, "PersistenceFailure")
    ELSE
      LET end == DatetimePlus(s.cursor, c.p_len)
          s1 == [s EXCEPT !.P = Append(@, PeriodRow(s.i, s.cursor, end)),
                          !.plan = Append(@, Slot("period", s.i, s.cursor, end)),
                          !.cursor = end,
                          !.creates = @ + 1]
          withBreak == c.bmf > 0 /\ c.break_after = s.i
          after == AdvanceAfterBreak(end, c.brk, c.bmf)
          s2 == [s1 EXCEPT !.B = Append(@, BreakRow(end, c.bmf)),
                           !.plan = Append(@, Slot("break", s.i, end, after)),
                           !.creates = @ + 1]
          s3 == IF withBreak THEN [s2 EXCEPT !.cursor = after] ELSE s1
      IN  IF withBreak /\ c.fault.at = s1.creates + 1
          THEN Stopped(s1, "PersistenceFailure")
          ELSE IF withBreak /\ after.ord > DaysToDateMax
          THEN Stopped(s2, "OverflowError")
          ELSE IF DateOverflows(s3.cursor, c.gap) THEN Stopped(s3, "OverflowError")
          ELSE Fill(c, [s3 EXCEPT !.cursor = DatetimePlus(@, c.gap), !.i = @ + 1])

\* A request refused before the handler touches a row.
RejectedAfterDelete(outcome, oldP, oldB) ==
    [outcome |-> outcome, P |-> <<>>, B |-> <<>>, plan |-> <<>>]

Rejected(outcome, oldP, oldB) ==
    [outcome |-> outcome, P |-> oldP, B |-> oldB, plan |-> <<>>]

\* The body of the try block of day_autofill: the conversions, the checks,
\* the two managers, the deletes and the loop.
AutofillRun(inp, count, nm, fault, oldP, oldB) ==
    LET nums == Numbers(inp)
        start == ParseTime(StartField(inp))
        checked == Validate(nums, start, count)
    IN
    IF checked # "ok" THEN Rejected(checked, oldP, oldB)
    ELSE IF RevManager(nm, "periods", "period_set").err
            \/ RevManager(nm, "breaks", "break_set").err
    THEN Rejected("AttributeError", oldP, oldB)
    ELSE Fill([count |-> count, p_len |-> PLen(nums), gap |-> Gap(nums),
               break_after |-> nums.break_after.v, brk |-> Brk(nums),
               bmf |-> BreakMinutesFinal(Brk(nums)), fault |-> fault],
              [i |-> 1, cursor |-> Combine(start.sec),
               P |-> DeleteAll(oldP), B |-> DeleteAll(oldB), plan |-> <<>>,
               creates |-> 0])

\* What transaction.atomic commits when the handler returns: the except
\* clause swallows every exception, so the block exits normally and commits
\* the rows as they are; a transaction the backend has aborted commits
\* nothing.
Committed(run, fault, oldP, oldB) ==
    IF run.outcome = "PersistenceFailure" /\ fault.aborts
    THEN [P |-> oldP, B |-> oldB]
    ELSE [P |-> run.P, B |-> run.B]

-----------------------------------------------------------------------------
(* The state. *)

InputFields ==
    {"start_time", "period_minutes", "period_seconds", "gap_minutes",
     "gap_seconds", "break_after", "break_minutes", "break_duration",
     "break_seconds"}

\* The POST of a request that carries no field.
NoInput == [f \in InputFields |-> Absent]

Snapshot == [periods |-> periods, breaks |-> breaks]

\* The record of the request served last, with the kind and the day of the
\* request served before it.
Served(op, d, outcome, inp, count, fault, plan, writes) ==
    [op |-> op, day |-> d, outcome |-> outcome, inp |-> inp, count |-> count,
     fault |-> fault, plan |-> plan, writes |-> writes,
     prev_op |-> last.op, prev_day |-> last.day]

\* days_list creates the DaySchedule rows: 7 periods on weekdays 0 and 1,
\* 6 on the others.
DefaultCount(w) == IF w \in {0, 1} THEN DefaultCountEarly ELSE DefaultCountLate

\* day_autofill(request, weekday) for a POST with the fields inp.
Autofill(d, inp, fault) ==
    /\ pre' = Snapshot
    /\ UNCHANGED <<naming, periods_count>>
    /\ IF d \notin WEEKDAY_MAP
       THEN /\ last' = Served("autofill", d, "BadWeekday", inp, 0, fault, <<>>, 0)
            /\ UNCHANGED <<periods, breaks>>
       ELSE LET run == AutofillRun(inp, periods_count[d], naming, fault,
                                   periods[d], breaks[d])
                done == Committed(run, fault, periods[d], breaks[d])
            IN  /\ periods' = [periods EXCEPT ![d] = done.P]
                /\ breaks' = [breaks EXCEPT ![d] = done.B]
                /\ last' = Served("autofill", d, run.outcome, inp,
                                  periods_count[d], fault, run.plan, 0)

-----------------------------------------------------------------------------
(* day_edit, day_clear, day_reindex. *)

\* The period and break rows the formsets of day_edit add by hand.
ManualSlots == {<<25200, 27900>>, <<28800, 31500>>}

ManualPeriods ==
    {[index |-> i, starts_at |-> t[1], ends_at |-> t[2]] :
        i \in 1..(MaxRows + 1), t \in ManualSlots}

ManualBreaks == {[label |-> "break", starts_at |-> 27900, duration_min |-> 15]}

\* p_formset.is_valid(): the formset rejects a row whose index another row of
\* the day already carries (see the comment of day_autofill on the uniqueness
\* constraints of the rows).
FormsetValid(rows, addP) ==
    /\ \A j \in 1..Len(addP), k \in 1..Len(rows) : addP[j].index # rows[k].index
    /\ \A j, k \in 1..Len(addP) : addP[j].index = addP[k].index => j = k

\* day_edit(request, weekday) for a POST: when the form and the formsets are
\* valid the form saves periods_count, the period formset adds the rows addP,
\* the break formset the rows addB; otherwise nothing is saved.
DayEdit(d, n, addP, addB) ==
    /\ pre' = Snapshot
    /\ UNCHANGED naming
    /\ IF d \notin WEEKDAY_MAP
       THEN /\ last' = Served("edit", d, "BadWeekday", NoInput, 0, NoFault, <<>>, 0)
            /\ UNCHANGED <<periods_count, periods, breaks>>
       ELSE IF ~FormsetValid(periods[d], addP)
       THEN /\ last' = Served("edit", d, "FormInvalid", NoInput, periods_count[d],
                              NoFault, <<>>, 0)
            /\ UNCHANGED <<periods_count, periods, breaks>>
       ELSE /\ periods_count' = [periods_count EXCEPT ![d] = n]
            /\ periods' = [periods EXCEPT ![d] = @ \o addP]
            /\ breaks' = [breaks EXCEPT ![d] = @ \o addB]
            /\ last' = Served("edit", d, "ok", NoInput, n, NoFault, <<>>, 0)

\* day_clear(request, weekday) for a POST. An exception leaves the view, so
\* transaction.atomic rolls back.
Clear(d) ==
    /\ pre' = Snapshot
    /\ UNCHANGED <<naming, periods_count>>
    /\ IF d \notin WEEKDAY_MAP
       THEN /\ last' = Served("clear", d, "BadWeekday", NoInput, 0, NoFault, <<>>, 0)
            /\ UNCHANGED <<periods, breaks>>
       ELSE IF GetattrDefault(naming, "periods", "period_set").err
               \/ GetattrDefault(naming, "breaks", "break_set").err
       THEN /\ last' = Served("clear", d, "AttributeError", NoInput,
                              periods_count[d], NoFault, <<>>, 0)
            /\ UNCHANGED <<periods, breaks>>
       ELSE /\ periods' = [periods EXCEPT ![d] = DeleteAll(@)]
            /\ breaks' = [breaks EXCEPT ![d] = DeleteAll(@)]
            /\ last' = Served("clear", d, "ok", NoInput, periods_count[d],
                              NoFault, <<>>, 0)

\* The key of periods.sort: (p.starts_at, p.ends_at).
KeyLess(a, b) ==
    a.starts_at < b.starts_at \/ (a.starts_at = b.starts_at /\ a.ends_at < b.ends_at)

\* The place of rows[k] in the list sorted by the key; list.sort is stable,
\* so rows of equal keys keep the order the manager returned them in.
Rank(rows, k) ==
    1 + Cardinality({j \in 1..Len(rows) :
                        \/ KeyLess(rows[j], rows[k])
                        \/ (~KeyLess(rows[k], rows[j]) /\ j < k)})

\* for i, p in enumerate(periods, start=1): if p.index != i: p.index = i;
\* p.save(update_fields=["index"])
Renumbered(rows) == [k \in 1..Len(rows) |-> [rows[k] EXCEPT !.index = Rank(rows, k)]]

\* The number of p.save calls of the loop.
WritesEveryRow(rows) == Len(rows)

Writes(rows) == Cardinality({k \in 1..Len(rows) : rows[k].index # Rank(rows, k)})

\* day_reindex(request, weekday) for a POST.
Reindex(d) ==
    /\ pre' = Snapshot
    /\ UNCHANGED <<naming, periods_count, breaks>>
    /\ IF d \notin WEEKDAY_MAP
       THEN /\ last' = Served("reindex", d, "BadWeekday", NoInput, 0, NoFault, <<>>, 0)
            /\ UNCHANGED periods
       ELSE IF GetattrDefault(naming, "periods", "period_set").err
       THEN /\ last' = Served("reindex", d, "AttributeError", NoInput,
                              periods_count[d], NoFault, <<>>, 0)
            /\ UNCHANGED periods
       ELSE /\ periods' = [periods EXCEPT ![d] = Renumbered(@)]
            /\ last' = Served("reindex", d, "ok", NoInput, periods_count[d],
                              NoFault, <<>>, Writes(periods[d]))

-----------------------------------------------------------------------------
(* The requests. *)

T_0 == <<"0">>
T_1 == <<"1">>
T_2 == <<"2">>
T_3 == <<"3">>
T_5 == <<"5">>
T_9 == <<"9">>
T_15 == <<"1", "5">>
T_30 == <<"3", "0">>
T_Neg1 == <<"-", "1">>
T_Far == <<"1", "5", "0", "0", "0", "0", "0", "0", "0", "0">>
T_2330 == <<" ", "2", "3", ":", "3", "0">>
T_2500 == <<"2", "5", ":", "0", "0">>

\* A POST of day_autofill, field by field.
Post(start, pm, ps, gm, gs, ba, bm, bd, bs) ==
    [start_time |-> start, period_minutes |-> pm, period_seconds |-> ps,
     gap_minutes |-> gm, gap_seconds |-> gs, break_after |-> ba,
     break_minutes |-> bm, break_duration |-> bd, break_seconds |-> bs]

\* POSTs that stress the checks: bad start times, zero and negative numbers,
\* break positions out of range.
CheckInputs ==
    {Post(st, pm, Absent, gm, Absent, ba, Absent, Absent, Absent) :
        st \in {Absent, Field(<<>>), Field(T_2500)},
        pm \in {Absent, Field(T_0), Field(T_Neg1)},
        gm \in {Absent, Field(T_Neg1)},
        ba \in {Absent, Field(T_9), Field(T_Neg1)}}

\* The period lengths, gaps and breaks of the POSTs that plan a day.
PeriodFields ==
    {<<Absent, Absent>>, <<Field(T_1), Absent>>, <<Field(T_0), Field(T_30)>>,
     <<Field(<<>>), Field(T_0)>>}

GapFields == {<<Absent, Absent>>, <<Field(T_5), Field(T_30)>>}

BreakFields ==
    {<<Absent, Absent, Absent>>, <<Field(T_1), Absent, Field(T_30)>>,
     <<Field(T_15), Absent, Absent>>, <<Field(<<>>), Field(T_2), Absent>>,
     <<Field(T_0), Field(T_2), Field(T_30)>>}

PlanInputs ==
    {Post(st, p[1], p[2], g[1], g[2], ba, b[1], b[2], b[3]) :
        st \in {Absent, Field(T_2330)}, p \in PeriodFields, g \in GapFields,
        ba \in {Absent, Field(T_1), Field(T_3)}, b \in BreakFields}

\* POSTs whose periods are so long that the cursor leaves the calendar.
FarInputs ==
    {Post(Absent, Field(T_Far), Absent, Absent, Absent, ba, bm, Absent, Absent) :
        ba \in {Absent, Field(T_1)}, bm \in {Absent, Field(T_15)}}

\* The persistence faults of a request.
MaxFault == 2

Faults == {NoFault} \cup [at : 1..MaxFault, aborts : BOOLEAN]

\* A request in flight.
AutofillReq(d, inp, f) ==
    [op |-> "autofill", day |-> d, inp |-> inp, fault |-> f, n |-> 0,
     addP |-> <<>>, addB |-> <<>>]

EditReq(d, n, addP, addB) ==
    [op |-> "edit", day |-> d, inp |-> NoInput, fault |-> NoFault, n |-> n,
     addP |-> addP, addB |-> addB]

StoreReq(op, d) ==
    [op |-> op, day |-> d, inp |-> NoInput, fault |-> NoFault, n |-> 0,
     addP |-> <<>>, addB |-> <<>>]

Weekdays == Days \cup {BadWeekday}

\* The POSTs served with a persistence fault.
FaultInputs ==
    {Post(Absent, Absent, Absent, g[1], g[2], ba, bm, Absent, Absent) :
        g \in GapFields, ba \in {Absent, Field(T_1)}, bm \in {Absent, Field(T_15)}}

PlanRequests ==
    {AutofillReq(d, inp, NoFault) :
        d \in Days, inp \in CheckInputs \cup PlanInputs \cup FarInputs}
    \cup {AutofillReq(d, inp, f) : d \in Days, inp \in FaultInputs, f \in Faults}
    \cup {AutofillReq(BadWeekday, NoInput, NoFault)}

StoreRequests == {StoreReq(op, d) : op \in {"clear", "reindex"}, d \in Weekdays}

EditRequests ==
    {EditReq(d, n, <<>>, <<>>) : d \in Weekdays, n \in {0, MaxCount}}
    \cup {EditReq(d, MaxCount, <<r>>, <<b>>) :
            d \in Days, r \in ManualPeriods, b \in ManualBreaks}

\* The rows a day holds from earlier edits, in the order the manager returns
\* them: any indices, no index twice.
RowSeqs ==
    {rows \in UNION {[1..n -> ManualPeriods] : n \in 0..MaxRows} :
        \A j, k \in 1..Len(rows) : rows[j].index = rows[k].index => j = k}

OldPeriods ==
    <<[index |-> 1, starts_at |-> 25200, ends_at |-> 27900],
      [index |-> 2, starts_at |-> 28800, ends_at |-> 31500]>>

OldBreaks == <<[label |-> "break", starts_at |-> 27900, duration_min |-> 15]>>

NoRows == [d \in Days |-> <<>>]

Defaults == [d \in Days |-> DefaultCount(d)]

Idle ==
    [op |-> "none", day |-> BadWeekday, outcome |-> "ok", inp |-> NoInput,
     count |-> 0, fault |-> NoFault, plan |-> <<>>, writes |-> 0,
     prev_op |-> "none", prev_day |-> BadWeekday]

\* One day_autofill request against a day that is empty or holds old rows,
\* after the day form has set the count of that day.
InitPlan ==
    /\ naming \in Namings
    /\ req \in {<<r>> : r \in PlanRequests}
    /\ periods_count \in
          {Defaults} \cup
          {[Defaults EXCEPT ![d] = n] : d \in Days \cap {req[1].day}, n \in 0..MaxCount}
    /\ \E old \in BOOLEAN :
          /\ periods = [d \in Days |-> IF old THEN OldPeriods ELSE <<>>]
          /\ breaks = [d \in Days |-> IF old THEN OldBreaks ELSE <<>>]

\* One or two store requests, or an edit, against days that hold any rows.
InitStore ==
    /\ naming \in Namings
    /\ periods_count = Defaults
    /\ periods \in {[d \in Days |-> IF d = 1 THEN rows ELSE other] :
                      rows \in RowSeqs, other \in {<<>>, OldPeriods}}
    /\ breaks \in {NoRows, [d \in Days |-> OldBreaks]}
    /\ req \in {<<r>> : r \in StoreRequests \cup EditRequests}
               \cup {<<r1, r2>> : r1 \in StoreRequests \cup EditRequests,
                                  r2 \in {StoreReq("clear", 1), StoreReq("reindex", 1)}}

Init ==
    /\ InitPlan \/ InitStore
    /\ pre = [periods |-> NoRows, breaks |-> NoRows]
    /\ last = Idle

ServeAutofill ==
    /\ req # <<>> /\ Head(req).op = "autofill"
    /\ Autofill(Head(req).day, Head(req).inp, Head(req).fault)
    /\ req' = Tail(req)

ServeEdit ==
    /\ req # <<>> /\ Head(req).op = "edit"
    /\ DayEdit(Head(req).day, Head(req).n, Head(req).addP, Head(req).addB)
    /\ req' = Tail(req)

ServeClear ==
    /\ req # <<>> /\ Head(req).op = "clear"
    /\ Clear(Head(req).day)
    /\ req' = Tail(req)

ServeReindex ==
    /\ req # <<>> /\ Head(req).op = "reindex"
    /\ Reindex(Head(req).day)
    /\ req' = Tail(req)

Next == ServeAutofill \/ ServeEdit \/ ServeClear \/ ServeReindex

Spec == Init /\ [][Next]_vars

-----------------------------------------------------------------------------
(* Two requests on one day at the same time.

   Each handler runs in a transaction of its own (transaction.atomic) and
   takes no lock (no select_for_update): what two overlapping requests see
   of each other is left to the database. The steps below run the
   statements of the handlers one at a time on a store that lets a
   statement see the rows committed when it starts (read committed): a
   delete removes the rows of the day it sees and waits for a row another
   open transaction has deleted; rows another open transaction has
   inserted are not seen. req holds the two transactions, periods and
   breaks the committed rows, pre the rows before the two requests. *)

\* The POSTs of the two requests: the default plan, and a plan with a break
\* of 15 minutes after period 1.
ConcInputs ==
    {NoInput,
     Post(Absent, Absent, Absent, Absent, Absent, Field(T_1), Field(T_15),
          Absent, Absent)}

\* A transaction that has not run a statement yet. del holds whose rows it
\* has deleted (0: the rows stored before, t: the rows transaction t
\* inserted), snap the rows its running delete statement sees, rows what it
\* inserts, at its place in the order of the commits (0: not committed).
ConcTxn(op, d, inp) ==
    [op |-> op, day |-> d, inp |-> inp, pc |-> "start", snap |-> {},
     del |-> [P |-> {}, B |-> {}], rows |-> [P |-> <<>>, B |-> <<>>],
     ins |-> FALSE, at |-> 0, outcome |-> "pending"]

ConcPairs ==
    UNION {{<<ConcTxn("autofill", d, i1), t2>> :
              i1 \in ConcInputs,
              t2 \in {ConcTxn("autofill", d, i2) : i2 \in ConcInputs}
                        \cup {ConcTxn("clear", d, NoInput)}} : d \in Days}

InitConc ==
    /\ naming \in Namings
    /\ periods_count \in {[d \in Days |-> n] : n \in 1..MaxCount}
    /\ \E old \in BOOLEAN :
          /\ periods = [d \in Days |-> IF old THEN OldPeriods ELSE <<>>]
          /\ breaks = [d \in Days |-> IF old THEN OldBreaks ELSE <<>>]
    /\ req \in ConcPairs
    /\ pre = Snapshot
    /\ last = Idle

\* The rows of kind k ("P": periods, "B": breaks) of origin o.
ConcRows(q, o, k) ==
    IF o = 0
    THEN (IF k = "P" THEN pre.periods[q[1].day] ELSE pre.breaks[q[1].day])
    ELSE q[o].rows[k]

\* The rows of origin o are committed and no committed transaction has
\* deleted them.
ConcAlive(q, o, k) ==
    /\ o = 0 \/ (q[o].at > 0 /\ q[o].ins)
    /\ \A t \in DOMAIN q : q[t].at > 0 => o \notin q[t].del[k]

\* Another open transaction has deleted the rows of origin o.
ConcLocked(q, t, o, k) ==
    \E u \in DOMAIN q \ {t} : q[u].pc # "done" /\ o \in q[u].del[k]

\* The committed rows of the day: the rows stored before, then the rows of
\* the transactions in the order of their commits.
ConcSegment(q, o, k) == IF ConcAlive(q, o, k) THEN ConcRows(q, o, k) ELSE <<>>

ConcSegmentAt(q, n, k) ==
    IF \E t \in DOMAIN q : q[t].at = n
    THEN ConcSegment(q, CHOOSE t \in DOMAIN q : q[t].at = n, k)
    ELSE <<>>

ConcStore(q, k) ==
    ConcSegment(q, 0, k) \o ConcSegmentAt(q, 1, k) \o ConcSegmentAt(q, 2, k)

ConcFrame == UNCHANGED <<naming, periods_count, periods, breaks, pre, last>>

\* The handler up to its first statement that writes: day_autofill converts
\* and checks the POST and looks up the managers, day_clear looks up the
\* managers.
ConcBegin(t) ==
    /\ req[t].pc = "start"
    /\ ConcFrame
    /\ LET d == req[t].day
           run == AutofillRun(req[t].inp, periods_count[d], naming, NoFault,
                              <<>>, <<>>)
           failed ==
              IF req[t].op = "clear"
              THEN (IF GetattrDefault(naming, "periods", "period_set").err
                       \/ GetattrDefault(naming, "breaks", "break_set").err
                    THEN "AttributeError" ELSE "ok")
              ELSE run.outcome
       IN  req' = [req EXCEPT ![t] =
                     IF failed # "ok"
                     THEN [@ EXCEPT !.pc = "done", !.outcome = failed]
                     ELSE IF req[t].op = "clear"
                     THEN [@ EXCEPT !.pc = "deleteP"]
                     ELSE [@ EXCEPT !.pc = "deleteP",
                                    !.rows = [P |-> run.P, B |-> run.B]]]

\* The kind of rows the delete statement at pc works on.
ConcKind(pc) == IF pc \in {"deleteP", "deletingP"} THEN "P" ELSE "B"

\* periods_mgr.all().delete() / breaks_mgr.all().delete() starts: it sees
\* the rows committed now.
ConcDeleteStart(t) ==
    /\ req[t].pc \in {"deleteP", "deleteB"}
    /\ ConcFrame
    /\ LET k == ConcKind(req[t].pc)
       IN  req' = [req EXCEPT ![t] =
                     [@ EXCEPT !.snap = {o \in {0} \cup DOMAIN req :
                                            /\ ConcAlive(req, o, k)
                                            /\ ConcRows(req, o, k) # <<>>},
                               !.pc = IF k = "P" THEN "deletingP" ELSE "deletingB"]]

\* The delete ends once no row it sees is held by another open transaction;
\* it deletes the rows it saw that are still there.
ConcDeleteFinish(t) ==
    /\ req[t].pc \in {"deletingP", "deletingB"}
    /\ ConcFrame
    /\ LET k == ConcKind(req[t].pc)
       IN  /\ \A o \in req[t].snap : ~ConcLocked(req, t, o, k)
           /\ req' = [req EXCEPT ![t] =
                        [@ EXCEPT !.del[k] = {o \in req[t].snap : ConcAlive(req, o, k)},
                                  !.snap = {},
                                  !.pc = IF k = "P" THEN "deleteB"
                                         ELSE IF req[t].op = "clear" THEN "commit"
                                         ELSE "insert"]]

\* The loop of day_autofill creates the periods and the break.
ConcInsert(t) ==
    /\ req[t].pc = "insert"
    /\ ConcFrame
    /\ req' = [req EXCEPT ![t] = [@ EXCEPT !.ins = TRUE, !.pc = "commit"]]

\* Where index is unique within a day, the first create fails on a committed
\* period of the other request that this one has not deleted; save() marks
\* the transaction for rollback, so the handler's except clause cannot keep
\* what the request has done.
ConcInsertRefused(t) ==
    /\ req[t].pc = "insert"
    /\ ConcFrame
    /\ \E u \in DOMAIN req \ {t} :
          /\ ConcAlive(req, u, "P")
          /\ u \notin req[t].del.P
          /\ req[u].rows.P # <<>> /\ req[t].rows.P # <<>>
    /\ req' = [req EXCEPT ![t] =
                 [@ EXCEPT !.del = [P |-> {}, B |-> {}], !.pc = "done",
                           !.outcome = "IntegrityError"]]

\* transaction.atomic commits when the handler returns.
ConcCommit(t) ==
    /\ req[t].pc = "commit"
    /\ UNCHANGED <<naming, periods_count, pre, last>>
    /\ LET n == 1 + Cardinality({u \in DOMAIN req : req[u].at > 0})
           q == [req EXCEPT ![t] = [@ EXCEPT !.at = n, !.pc = "done", !.outcome = "ok"]]
       IN  /\ req' = q
           /\ periods' = [periods EXCEPT ![req[t].day] = ConcStore(q, "P")]
           /\ breaks' = [breaks EXCEPT ![req[t].day] = ConcStore(q, "B")]

ConcNext ==
    \E t \in {1, 2} :
        \/ ConcBegin(t)
        \/ ConcDeleteStart(t)
        \/ ConcDeleteFinish(t)
        \/ ConcInsert(t)
        \/ ConcInsertRefused(t)
        \/ ConcCommit(t)

SpecConc == InitConc /\ [][ConcNext]_vars

-----------------------------------------------------------------------------
(* What the properties below read from a served request. *)

\* The request served last was a day_autofill POST on a day of the week.
AutofillServed == last.op = "autofill" /\ last.day \in Days

\* The outcomes of a request refused by a check.
RejectKinds ==
    {"NegativeDuration", "InvalidTimeFormat", "DegeneratePeriodLength",
     "NoPeriodsConfigured", "BreakPositionOutOfRange"}

\* The outcomes of a run that failed after the deletes.
FailureKinds == {"OverflowError", "PersistenceFailure"}

\* The rows of the day of the last request are as before the request.
DayUntouched ==
    /\ periods[last.day] = pre.periods[last.day]
    /\ breaks[last.day] = pre.breaks[last.day]

\* The numbers of the last POST as the form gives them (defaults applied).
LastNumber(name) == Numbers(last.inp)[name].v

\* What the last POST violates, each read from the POST alone.
SomeNegative == \E name \in DOMAIN Numbers(last.inp) : LastNumber(name) < 0

BadStart == ~ParseTime(StartField(last.inp)).ok

ZeroPeriod ==
    /\ LastNumber("period_minutes") <= 0
    /\ LastNumber("period_minutes") * SecondsPerMinute + LastNumber("period_seconds") <= 0

NoPeriods == last.count <= 0

BreakOutOfRange ==
    LastNumber("break_after") < 0 \/ LastNumber("break_after") > last.count

\* The durations of the last POST, in seconds (for POSTs without a negative
\* number and with periods, gaps and breaks of less than a day).
GapSeconds == LastNumber("gap_minutes") * SecondsPerMinute + LastNumber("gap_seconds")

BrkSeconds ==
    LastNumber("break_minutes") * SecondsPerMinute + LastNumber("break_seconds")

PeriodSecondsOfDay ==
    ((LastNumber("period_minutes") % MinutesPerDay) * SecondsPerMinute
        + LastNumber("period_seconds")) % SecondsPerDay

\* The least number of whole minutes that covers n seconds.
CeilMinutes(n) == CHOOSE m \in 0..n : m * SecondsPerMinute >= n /\ (m = 0 \/ (m - 1) * SecondsPerMinute < n)

-----------------------------------------------------------------------------
(* C1 *)

\* C1 (as claimed): when day_autofill fails after it has begun deleting the
\* day's rows, the day's periods and breaks are exactly those stored before
\* the call.
C1_AllOrNothing ==
    (AutofillServed /\ last.outcome \in FailureKinds) => DayUntouched

-----------------------------------------------------------------------------
(* C2 *)

\* The stored slots of the day in the order they were created, each as the
\* time-of-day interval <<start, end>>.
StoredSlots ==
    [k \in 1..Len(last.plan) |->
        IF last.plan[k].kind = "period"
        THEN <<periods[last.day][last.plan[k].index].starts_at,
               periods[last.day][last.plan[k].index].ends_at>>
        ELSE <<breaks[last.day][1].starts_at,
               breaks[last.day][1].starts_at
                   + breaks[last.day][1].duration_min * SecondsPerMinute>>]

\* C2 (as claimed): after a successful day_autofill every stored period has
\* starts_at < ends_at and the stored periods and break, in the order they
\* were created, are strictly increasing and pairwise disjoint as
\* time-of-day intervals [starts_at, ends_at).
C2_NoOverlap ==
    (AutofillServed /\ last.outcome = "ok") =>
        /\ \A i \in 1..Len(periods[last.day]) :
              periods[last.day][i].starts_at < periods[last.day][i].ends_at
        /\ \A j, k \in 1..Len(last.plan) :
              j < k => /\ StoredSlots[j][2] <= StoredSlots[k][1]
                       /\ StoredSlots[j][1] < StoredSlots[k][1]

-----------------------------------------------------------------------------
(* C3 *)

\* C3: a day_autofill POST with an unparseable or empty start time, a
\* negative number, a zero period length, no periods configured or a break
\* position out of range is refused and leaves every stored period and break
\* as it was; a POST with period_minutes = 0 and period_seconds = 0 that is
\* acceptable otherwise is refused as a degenerate period length.
C3_ValidationPrecedesMutation ==
    AutofillServed =>
        /\ (BadStart \/ SomeNegative \/ ZeroPeriod \/ NoPeriods \/ BreakOutOfRange)
              => /\ last.outcome \in RejectKinds
                 /\ periods = pre.periods
                 /\ breaks = pre.breaks
        /\ last.outcome \in RejectKinds => (periods = pre.periods /\ breaks = pre.breaks)
        /\ (ZeroPeriod /\ ~SomeNegative /\ ~BadStart)
              => last.outcome = "DegeneratePeriodLength"

\* C3 witness: a POST with period_minutes = 0 was refused as degenerate on a
\* day that holds periods and a break, which are still there.
C3_Witness ==
    /\ AutofillServed
    /\ last.outcome = "DegeneratePeriodLength"
    /\ last.inp.period_minutes = Field(T_0)
    /\ LastNumber("period_seconds") = 0
    /\ pre.periods[last.day] # <<>>
    /\ pre.breaks[last.day] # <<>>
    /\ DayUntouched

-----------------------------------------------------------------------------
(* C4 *)

\* The error of the earliest violated check in the order the claim gives:
\* periods_count, period length, break position, negative numbers.
ClaimedVerdict ==
    IF NoPeriods THEN "NoPeriodsConfigured"
    ELSE IF ZeroPeriod THEN "DegeneratePeriodLength"
    ELSE IF BreakOutOfRange THEN "BreakPositionOutOfRange"
    ELSE IF SomeNegative THEN "NegativeDuration"
    ELSE "none"

\* C4 (as claimed): a POST that violates some of the four checks is refused
\* with the error of the earliest violated check in the order periods_count,
\* period length, break position, negative numbers.
C4_ClaimedOrder ==
    (AutofillServed /\ ClaimedVerdict # "none") => last.outcome = ClaimedVerdict

\* The error of the earliest violated check in the order of the handler.
CodeVerdict ==
    IF SomeNegative THEN "NegativeDuration"
    ELSE IF BadStart THEN "InvalidTimeFormat"
    ELSE IF ZeroPeriod THEN "DegeneratePeriodLength"
    ELSE IF NoPeriods THEN "NoPeriodsConfigured"
    ELSE IF BreakOutOfRange THEN "BreakPositionOutOfRange"
    ELSE "none"

\* C4 (amended): the checks run in the order negative numbers, start time,
\* period length, periods_count, break position; a POST that violates some
\* of them is refused with the error of the earliest violated check in this
\* order, and a POST that violates none is refused by none.
C4_CodeOrder ==
    AutofillServed =>
        IF CodeVerdict # "none" THEN last.outcome = CodeVerdict
        ELSE last.outcome \notin RejectKinds

\* C4 witness: a POST with a zero period length on a day with no periods
\* configured was refused as a degenerate period length.
C4_Witness ==
    /\ AutofillServed
    /\ ZeroPeriod /\ NoPeriods /\ ~SomeNegative /\ ~BadStart
    /\ last.outcome = "DegeneratePeriodLength"

-----------------------------------------------------------------------------
(* C5 *)

\* A datetime n seconds after dt.
SecondsAfter(dt, n) == DatetimePlus(dt, Timedelta(0, n))

\* C5: the break of a day_autofill run is stored with duration_min equal to
\* the requested duration in whole minutes rounded up (none is created for a
\* zero duration), the cursor moves on by the rounded duration, and the
\* period after the break starts neither before break start + duration_min
\* minutes nor inside the requested window.
C5_Rounding ==
    AutofillServed =>
        /\ BrkSeconds = 0 =>
              \A k \in 1..Len(last.plan) : last.plan[k].kind = "period"
        /\ (BrkSeconds = 0 /\ last.outcome = "ok") => breaks[last.day] = <<>>
        /\ \A k \in 1..Len(last.plan) :
              last.plan[k].kind = "break" =>
                LET rounded == CeilMinutes(BrkSeconds)
                    from == last.plan[k].from
                IN  /\ last.plan[k].to = SecondsAfter(from, rounded * SecondsPerMinute)
                    /\ last.outcome = "ok" =>
                          breaks[last.day] =
                             <<[label |-> "break", starts_at |-> TimeOf(from),
                                duration_min |-> rounded]>>
                    /\ k < Len(last.plan) =>
                          /\ DtLeq(SecondsAfter(from, rounded * SecondsPerMinute),
                                   last.plan[k + 1].from)
                          /\ DtLeq(SecondsAfter(from, BrkSeconds),
                                   last.plan[k + 1].from)

\* C5 witness: a break of 1 minute 30 seconds was stored as 2 minutes and a
\* period follows it.
C5_Witness ==
    /\ AutofillServed /\ last.outcome = "ok"
    /\ BrkSeconds = 90
    /\ Len(breaks[last.day]) = 1
    /\ breaks[last.day][1].duration_min = 2
    /\ \E k \in 1..(Len(last.plan) - 1) : last.plan[k].kind = "break"

-----------------------------------------------------------------------------
(* C8 *)

\* C8: a successful day_autofill with break_after = 0 or a zero break
\* duration stores exactly periods_count periods and no break, whatever
\* break the day held, and each period starts gap_duration after the one
\* before it ends (on the clock of the day).
C8_NoBreakCase ==
    (AutofillServed /\ last.outcome = "ok"
        /\ (LastNumber("break_after") = 0 \/ BrkSeconds = 0)) =>
        /\ Len(periods[last.day]) = last.count
        /\ breaks[last.day] = <<>>
        /\ \A i \in 1..(Len(periods[last.day]) - 1) :
              periods[last.day][i + 1].starts_at =
                 (periods[last.day][i].ends_at + GapSeconds) % SecondsPerDay

\* C8 witness: a successful run without a break on a day that held a break,
\* with several periods and a gap between them.
C8_Witness ==
    /\ AutofillServed /\ last.outcome = "ok"
    /\ LastNumber("break_after") = 0
    /\ pre.breaks[last.day] # <<>>
    /\ breaks[last.day] = <<>>
    /\ Len(periods[last.day]) >= 2
    /\ GapSeconds > 0

-----------------------------------------------------------------------------
(* C9 *)

\* The rows of the end-to-end example: 07:00:00, 6 periods of 45 minutes,
\* no gap, a break of 15 minutes after period 3.
ExamplePeriods ==
    <<[index |-> 1, starts_at |-> 25200, ends_at |-> 27900],
      [index |-> 2, starts_at |-> 27900, ends_at |-> 30600],
      [index |-> 3, starts_at |-> 30600, ends_at |-> 33300],
      [index |-> 4, starts_at |-> 34200, ends_at |-> 36900],
      [index |-> 5, starts_at |-> 36900, ends_at |-> 39600],
      [index |-> 6, starts_at |-> 39600, ends_at |-> 42300]>>

ExampleBreaks == <<[label |-> "break", starts_at |-> 33300, duration_min |-> 15]>>

IsExample ==
    /\ ParseTime(StartField(last.inp)).sec = 25200
    /\ last.count = 6
    /\ LastNumber("period_minutes") = 45 /\ LastNumber("period_seconds") = 0
    /\ GapSeconds = 0
    /\ LastNumber("break_after") = 3
    /\ BrkSeconds = 900

\* C9: a successful day_autofill stores periods indexed 1..periods_count,
\* each of the period length; it stores one break if 1 <= break_after <=
\* periods_count and the break duration is positive, and none otherwise; the
\* break starts where period break_after ends and the next period starts at
\* the break's end plus the gap (all on the clock of the day); the
\* end-to-end example yields the rows of the example.
C9_PlanShape ==
    (AutofillServed /\ last.outcome = "ok") =>
        LET rows == periods[last.day]
            ba == LastNumber("break_after")
        IN  /\ Len(rows) = last.count
            /\ \A i \in 1..Len(rows) :
                  /\ rows[i].index = i
                  /\ (rows[i].ends_at - rows[i].starts_at) % SecondsPerDay
                        = PeriodSecondsOfDay
            /\ IF ba \in 1..last.count /\ BrkSeconds > 0
               THEN /\ Len(breaks[last.day]) = 1
                    /\ breaks[last.day][1].starts_at = rows[ba].ends_at
                    /\ ba < last.count =>
                          rows[ba + 1].starts_at =
                             (breaks[last.day][1].starts_at
                                + breaks[last.day][1].duration_min * SecondsPerMinute
                                + GapSeconds) % SecondsPerDay
               ELSE breaks[last.day] = <<>>
            /\ IsExample => (rows = ExamplePeriods /\ breaks[last.day] = ExampleBreaks)

\* C9 witness: the end-to-end example was served and its rows are stored.
C9_Witness ==
    /\ AutofillServed /\ last.outcome = "ok"
    /\ IsExample
    /\ periods[last.day] = ExamplePeriods
    /\ breaks[last.day] = ExampleBreaks

-----------------------------------------------------------------------------
(* C6, C7 *)

ReindexServed == last.op = "reindex" /\ last.day \in Days

\* The rows, sorted by (starts_at, ends_at), carry the indices 1..n in that
\* order.
Numbered(rows) ==
    /\ {rows[k].index : k \in 1..Len(rows)} = 1..Len(rows)
    /\ \A j, k \in 1..Len(rows) :
          KeyLess(rows[j], rows[k]) => rows[j].index < rows[k].index

\* C6 (as claimed): after day_reindex the periods of the day, sorted by
\* (starts_at, ends_at), carry the indices 1..n in that order, and a second
\* day_reindex right after the first writes no row.
C6_ReindexOrdered ==
    ReindexServed =>
        /\ Numbered(periods[last.day])
        /\ (last.prev_op = "reindex" /\ last.prev_day = last.day) =>
              (last.writes = 0 /\ periods = pre.periods)

\* C7 (as claimed): day_reindex on an existing day completes without error,
\* whatever the rows and the naming of the relation.
C7_ReindexSucceeds == ReindexServed => last.outcome = "ok"

-----------------------------------------------------------------------------
(* C10 *)

\* C10 (as claimed): day_clear on an existing day leaves the day without
\* periods and without breaks, whatever the naming of the relations, and
\* touches no row of another day.
C10_ClearDeletesAll ==
    (last.op = "clear" /\ last.day \in Days) =>
        /\ periods[last.day] = <<>>
        /\ breaks[last.day] = <<>>
        /\ \A d \in Days \ {last.day} :
              periods[d] = pre.periods[d] /\ breaks[d] = pre.breaks[d]
        /\ DOMAIN periods_count = Days

-----------------------------------------------------------------------------
(* C11 *)

\* The rows of the day after the handlers of transactions a and then b have
\* run one after the other.
SerialStep(t, store) ==
    IF req[t].op = "clear"
    THEN (IF GetattrDefault(naming, "periods", "period_set").err
             \/ GetattrDefault(naming, "breaks", "break_set").err
          THEN store ELSE [P |-> <<>>, B |-> <<>>])
    ELSE Committed(AutofillRun(req[t].inp, periods_count[req[t].day], naming,
                               NoFault, store.P, store.B),
                   NoFault, store.P, store.B)

SerialResult(a, b) ==
    SerialStep(b, SerialStep(a, [P |-> pre.periods[req[1].day],
                                 B |-> pre.breaks[req[1].day]]))

ConcDone == \A t \in DOMAIN req : req[t].pc = "done"

\* C11 (as claimed): when two requests on the same day (two day_autofill, or
\* a day_autofill and a day_clear) have both ended, however their statements
\* interleaved, the committed rows of the day are those of running the two
\* handlers one after the other in one of the two orders.
C11_Serialised ==
    ConcDone =>
        [P |-> periods[req[1].day], B |-> breaks[req[1].day]]
            \in {SerialResult(1, 2), SerialResult(2, 1)}

-----------------------------------------------------------------------------
(* C12 *)

\* C12: day_reindex neither adds nor removes a period, leaves starts_at and
\* ends_at of every period as they were, saves exactly the rows whose index
\* it changes, and leaves every break and the periods of the other days as
\* they were.
C12_ReindexFrame ==
    ReindexServed =>
        LET before == pre.periods[last.day]
            after == periods[last.day]
        IN  /\ Len(after) = Len(before)
            /\ \A k \in 1..Len(after) :
                  /\ after[k].starts_at = before[k].starts_at
                  /\ after[k].ends_at = before[k].ends_at
                  /\ DOMAIN after[k] = DOMAIN before[k]
            /\ last.writes =
                  Cardinality({k \in 1..Len(after) : after[k].index # before[k].index})
            /\ breaks = pre.breaks
            /\ \A d \in Days \ {last.day} : periods[d] = pre.periods[d]

\* C12 witness: a day_reindex that changed the index of one period and left
\* another, already in its place, unwritten, on a day that holds a break.
C12_Witness ==
    /\ ReindexServed /\ last.outcome = "ok"
    /\ last.writes = 1
    /\ Len(periods[last.day]) = 2
    /\ periods[last.day] # pre.periods[last.day]
    /\ \E k \in 1..2 : periods[last.day][k] = pre.periods[last.day][k]
    /\ breaks[last.day] # <<>>

-----------------------------------------------------------------------------
(* C13 *)

\* The integer a text of the POSTs writes.
Written(text) ==
    CASE text = T_0 -> 0
      [] text = T_1 -> 1
      [] text = T_2 -> 2
      [] text = T_3 -> 3
      [] text = T_5 -> 5
      [] text = T_9 -> 9
      [] text = T_15 -> 15
      [] text = T_30 -> 30
      [] text = T_Neg1 -> 0 - 1
      [] text = T_Far -> 1500000000

\* A field of the last POST is absent or blank.
Blank(f) == ~f.present \/ f.text = <<>>

\* A number of the last POST read from the form, with the given default for
\* an absent or blank field; the minutes of the break come from
\* break_minutes or, when that is absent or blank, from break_duration.
Given(name, default) ==
    LET f == IF name = "break_minutes" /\ Blank(last.inp.break_minutes)
             THEN last.inp.break_duration ELSE last.inp[name]
    IN  IF Blank(f) THEN default ELSE Written(f.text)

NumberNames ==
    {"period_minutes", "period_seconds", "gap_minutes", "gap_seconds",
     "break_after", "break_minutes", "break_seconds"}

\* A POST the checks before the period length let through.
Composable ==
    /\ AutofillServed
    /\ ParseTime(StartField(last.inp)).ok
    /\ \A name \in NumberNames : Given(name, 0) >= 0

\* minutes * 60 + seconds, on the clock of the day.
OnClock(minutes, seconds) ==
    ((minutes % MinutesPerDay) * SecondsPerMinute + seconds) % SecondsPerDay

\* The stored rows are those of a period of pm minutes and ps seconds, a gap
\* of gm and gs, and a break of bm and bs.
Composed(pm, ps, gm, gs, bm, bs) ==
    LET rows == periods[last.day]
        ba == Given("break_after", 0)
        hasBreak == ba >= 1 /\ bm * SecondsPerMinute + bs > 0
    IN  /\ \A i \in 1..Len(rows) :
              (rows[i].ends_at - rows[i].starts_at) % SecondsPerDay = OnClock(pm, ps)
        /\ \A i \in 1..(Len(rows) - 1) :
              (i # ba \/ ~hasBreak) =>
                 (rows[i + 1].starts_at - rows[i].ends_at) % SecondsPerDay
                    = OnClock(gm, gs)
        /\ IF hasBreak
           THEN /\ Len(breaks[last.day]) = 1
                /\ breaks[last.day][1].duration_min
                      = CeilMinutes(bm * SecondsPerMinute + bs)
           ELSE breaks[last.day] = <<>>

\* C13 (as claimed): every minutes and seconds input defaults to 0 when
\* absent or blank; the stored durations are minutes * 60 + seconds of the
\* inputs so read, and a POST whose period so read is zero (period_minutes
\* blank, period_seconds 0) is refused as a degenerate period length.
C13_ClaimedDefaults ==
    Composable =>
        /\ (Given("period_minutes", 0) = 0 /\ Given("period_seconds", 0) = 0)
              => last.outcome = "DegeneratePeriodLength"
        /\ last.outcome = "ok" =>
              Composed(Given("period_minutes", 0), Given("period_seconds", 0),
                       Given("gap_minutes", 0), Given("gap_seconds", 0),
                       Given("break_minutes", 0), Given("break_seconds", 0))

\* C13 (amended): period_minutes defaults to 45 when absent or blank and
\* every other minutes and seconds input to 0; the stored durations are
\* minutes * 60 + seconds of the inputs so read; a POST is refused as a
\* degenerate period length exactly when the period so read is zero, so a
\* POST with period_minutes blank and period_seconds 0 is not: it plans
\* periods of 45 minutes.
C13_Composition ==
    Composable =>
        LET pm == Given("period_minutes", DefaultPeriodMinutes)
            ps == Given("period_seconds", 0)
        IN  /\ last.outcome = "DegeneratePeriodLength" <=> (pm = 0 /\ ps = 0)
            /\ last.outcome = "ok" =>
                  Composed(pm, ps, Given("gap_minutes", 0), Given("gap_seconds", 0),
                           Given("break_minutes", 0), Given("break_seconds", 0))
            /\ (Blank(last.inp.period_minutes) /\ ps = 0) =>
                  /\ last.outcome # "DegeneratePeriodLength"
                  /\ last.outcome = "ok" =>
                        \A i \in 1..Len(periods[last.day]) :
                           (periods[last.day][i].ends_at
                               - periods[last.day][i].starts_at) % SecondsPerDay
                              = DefaultPeriodMinutes * SecondsPerMinute

\* C13 witness: a POST with period_minutes blank and period_seconds 0 was
\* served and the day holds periods of 45 minutes, a gap of 5 minutes 30
\* seconds between them.
C13_Witness ==
    /\ AutofillServed /\ last.outcome = "ok"
    /\ last.inp.period_minutes = Field(<<>>)
    /\ last.inp.period_seconds = Field(T_0)
    /\ last.inp.gap_minutes = Field(T_5) /\ last.inp.gap_seconds = Field(T_30)
    /\ Len(periods[last.day]) >= 2
    /\ periods[last.day][1].ends_at - periods[last.day][1].starts_at = 2700
    /\ periods[last.day][2].starts_at - periods[last.day][1].ends_at = 330

====
